---- MODULE Spec2Model ----
(***************************************************************************)
(* RabbitHole: a local vault of labelled API keys.                         *)
(*                                                                         *)
(* Python values are modelled as follows.                                  *)
(*   str    a sequence of code points                                      *)
(*   bytes  a sequence of numbers 0..255                                   *)
(*   None   the one-element sequence <<-1>> (no str or bytes holds -1)     *)
(* The third-party primitives (PBKDF2-HMAC-SHA256, AES-GCM, bcrypt) are    *)
(* modelled by small concrete functions that keep what the callers can     *)
(* observe of them: their input handling (HMAC key padding, bcrypt's 72    *)
(* byte limit, key and tag lengths), the exceptions they raise, and        *)
(* collision freedom on the values the model uses.                         *)
(*                                                                         *)
(* Specifications.                                                         *)
(*   SpecKdf     deriveKey called on its own                               *)
(*   SpecCipher  encryptApiKey, a change of the stored ciphertext,         *)
(*               decryptApiKey                                             *)
(*   SpecNonce   encryptApiKey called several times                        *)
(*   SpecGate    hashPassword and verifyPassword                           *)
(*   SpecStore   the storage layer's calls on the records of a vault       *)
(*   SpecHash    the calls on the password hash of a vault                 *)
(*   SpecClip    copyToClipboard and the threads of its timers             *)
(*   SpecClipLive  the same under fair scheduling of the threads           *)
(*   Spec        runs of main, one process after another, on the files     *)
(*               they share (salt file, profiles, databases)               *)
(***************************************************************************)
EXTENDS Integers, Sequences, FiniteSets, TLC

VARIABLES
  kdfLog,     \* the deriveKey calls made: <<[password, salt, key], ...>>
  enc,        \* the encryptApiKey call made: [apiKey, key, iv, out], or NoCall
  stored,     \* the (iv, ciphertext) pair as it is stored
  corrupted,  \* whether a byte of the stored ciphertext was changed
  dec,        \* the decryptApiKey call made: [iv, ciphertext, key, result], or NoCall
  encLog,     \* the encryptApiKey calls made in a row: <<[apiKey, key, iv, out], ...>>
  hashLog,    \* the hashPassword calls made: <<[password, rnd, hash], ...>>
  ver,        \* the verifyPassword call made: [of, storedHash, password, result], or NoCall
  saltFile,       \* the content of config/salt.bin, or None when the file is absent
  profiles,       \* the 'profiles' entry of config.json: profile name -> database path
  dbs,            \* the database files: path -> [keyCheck, users, api_keys], or NoDb
  pc,             \* where main is: "idle", "profile", "auth", "key", "load", "offer",
                  \* "select", "retrieve", "copy", "done", "exit"
  conn,           \* the connection of the session: the path of the open database
  profileName,    \* the profile name main got from the profile step
  encryptionKey,  \* main's encryptionKey
  apiKeys,        \* main's apiKeys: the labels loaded
  selectedLabel,  \* main's selectedLabel
  decryptedKey,   \* main's decryptedKey
  clipboard,      \* the text in the system clipboard
  authResult,     \* what authenticateUser returned in the session, "none" before
  authPassword,   \* the password typed at authenticateUser's prompt
  keyPassword,    \* the password typed at the prompt of main's step 6
  calls,          \* the operations on the vault main called in the session
  origin,         \* of every record added: [db, label, password, salt, apiKey]
  saltCall,       \* the last getEncryptionKey call of the process: [present, generated,
                  \* kept, fromSalt, failed, vaults, created], or NoCall
  storeCall,      \* the last call made on the test vault: [call, ..., result, before],
                  \* before being the vault as the call found it; or NoCall
  inserted,       \* of every add that returned True on the test vault:
                  \* [label, iv, ciphertext, labelInput, apiKeyInput, key, via]
  clipText,       \* the text in the system clipboard the threads write to
  timer,          \* clipboard.py's global timer: an index into timers, 0 for None
  timers,         \* the Timer objects started: <<[state, finished], ...>>, state
                  \* being "waiting", "woken", "firing" or "done"
  callerPc,       \* where the calling thread is: "idle", "copied", "cancelled",
                  \* "exiting", "exited"
  owner,          \* the copyToClipboard call whose text clipText is, 0 if none's
  erased          \* <<i, k>> for every text of call k that timer i cleared

harnessVars == <<kdfLog, enc, stored, corrupted, dec, encLog, hashLog, ver>>

mainVars == <<saltFile, profiles, dbs, pc, conn, profileName, encryptionKey, apiKeys,
              selectedLabel, decryptedKey, clipboard, authResult, authPassword,
              keyPassword, calls, origin, saltCall>>

storeVars == <<storeCall, inserted>>

clipVars == <<clipText, timer, timers, callerPc, owner, erased>>

None == <<-1>>

IsNone(x) == x = None

\* Python truthiness of a str, bytes or None: None and the empty value are falsy.
Truthy(x) == x # None /\ x # <<>>

\* n copies of the element c
Rep(c, n) == [i \in 1..n |-> c]

Take(s, n) == IF Len(s) <= n THEN s ELSE SubSeq(s, 1, n)

Drop(s, n) == IF Len(s) <= n THEN <<>> ELSE SubSeq(s, n + 1, Len(s))

\* What a raised exception is modelled as, where a value was expected.
Raised == <<-2>>

(***************************************************************************)
(* str.encode() and bytes.decode(): UTF-8, strict.                         *)
(***************************************************************************)
IsSurrogate(c) == c >= 55296 /\ c <= 57343

Utf8Char(c) ==
  IF c < 128 THEN <<c>>
  ELSE IF c < 2048 THEN <<192 + (c \div 64), 128 + (c % 64)>>
  ELSE IF c < 65536
    THEN <<224 + (c \div 4096), 128 + ((c \div 64) % 64), 128 + (c % 64)>>
  ELSE <<240 + (c \div 262144), 128 + ((c \div 4096) % 64),
         128 + ((c \div 64) % 64), 128 + (c % 64)>>

RECURSIVE Utf8Range(_, _, _)
\* The bytes of the code points s[lo..hi]
Utf8Range(s, lo, hi) ==
  IF lo > hi THEN <<>>
  ELSE IF lo = hi THEN Utf8Char(s[lo])
  ELSE LET mid == (lo + hi) \div 2
       IN  Utf8Range(s, lo, mid) \o Utf8Range(s, mid + 1, hi)

Utf8Bytes(s) == Utf8Range(s, 1, Len(s))

\* s.encode(): UnicodeEncodeError on a lone surrogate, AttributeError on None.
Utf8Encode(s) ==
  IF s = None \/ s = Raised THEN Raised
  ELSE IF \E i \in 1..Len(s) : IsSurrogate(s[i]) THEN Raised
  ELSE Utf8Bytes(s)

IsCont(b) == b >= 128 /\ b <= 191

RECURSIVE Utf8Scan(_, _)
\* The code points of the bytes b, appended to out; Raised on an invalid sequence
\* (a stray continuation byte, a truncated or overlong form, a surrogate).
Utf8Scan(b, out) ==
  IF b = <<>> THEN out
  ELSE IF b[1] < 128 THEN Utf8Scan(Tail(b), Append(out, b[1]))
  ELSE IF b[1] >= 194 /\ b[1] <= 223
    THEN IF Len(b) >= 2 /\ IsCont(b[2])
         THEN Utf8Scan(Drop(b, 2), Append(out, (b[1] - 192) * 64 + (b[2] - 128)))
         ELSE Raised
  ELSE IF b[1] >= 224 /\ b[1] <= 239
    THEN IF Len(b) >= 3 /\ IsCont(b[2]) /\ IsCont(b[3])
         THEN LET c == (b[1] - 224) * 4096 + (b[2] - 128) * 64 + (b[3] - 128)
              IN  IF c < 2048 \/ IsSurrogate(c) THEN Raised
                  ELSE Utf8Scan(Drop(b, 3), Append(out, c))
         ELSE Raised
  ELSE IF b[1] >= 240 /\ b[1] <= 244
    THEN IF Len(b) >= 4 /\ IsCont(b[2]) /\ IsCont(b[3]) /\ IsCont(b[4])
         THEN LET c == (b[1] - 240) * 262144 + (b[2] - 128) * 4096
                       + (b[3] - 128) * 64 + (b[4] - 128)
              IN  IF c < 65536 \/ c > 1114111 THEN Raised
                  ELSE Utf8Scan(Drop(b, 4), Append(out, c))
         ELSE Raised
  ELSE Raised

\* b.decode(): UnicodeDecodeError on bytes that are not UTF-8.  Bytes that are
\* all ASCII are their own code points.
Utf8Decode(b) ==
  IF b = None \/ b = Raised THEN Raised
  ELSE IF \A i \in 1..Len(b) : b[i] < 128 THEN b
  ELSE Utf8Scan(b, <<>>)

(***************************************************************************)
(* base64.b64encode(b).decode() and base64.b64decode(s).  The decoder is   *)
(* CPython's binascii.a2b_base64 in its default, non-strict mode: it skips *)
(* characters outside the alphabet, stops at a completed pad sequence and  *)
(* ignores the bits of the last character that do not fill a byte.         *)
(***************************************************************************)
PadChar == 61

\* The character of the base64 value v (0..63): A-Z a-z 0-9 + /
B64Char(v) ==
  IF v < 26 THEN 65 + v
  ELSE IF v < 52 THEN 97 + (v - 26)
  ELSE IF v < 62 THEN 48 + (v - 52)
  ELSE IF v = 62 THEN 43 ELSE 47

\* The base64 value of the character c, 64 when c is not of the alphabet.
B64Value(c) ==
  IF c >= 65 /\ c <= 90 THEN c - 65
  ELSE IF c >= 97 /\ c <= 122 THEN c - 97 + 26
  ELSE IF c >= 48 /\ c <= 57 THEN c - 48 + 52
  ELSE IF c = 43 THEN 62
  ELSE IF c = 47 THEN 63 ELSE 64

RECURSIVE B64Encode(_)
B64Encode(b) ==
  IF b = <<>> THEN <<>>
  ELSE IF Len(b) = 1
    THEN <<B64Char(b[1] \div 4), B64Char((b[1] % 4) * 16), PadChar, PadChar>>
  ELSE IF Len(b) = 2
    THEN <<B64Char(b[1] \div 4), B64Char((b[1] % 4) * 16 + (b[2] \div 16)),
           B64Char((b[2] % 16) * 4), PadChar>>
  ELSE <<B64Char(b[1] \div 4), B64Char((b[1] % 4) * 16 + (b[2] \div 16)),
         B64Char((b[2] % 16) * 4 + (b[3] \div 64)), B64Char(b[3] % 64)>>
       \o B64Encode(Drop(b, 3))

RECURSIVE A2bScan(_, _, _, _, _, _)
\* The decoder's loop from character i on: quad is the position in the current
\* group of four, left the bits not yet written, pads the pad characters seen
\* since the last data character, out the bytes written.
A2bScan(s, i, quad, left, pads, out) ==
  IF i > Len(s)
    THEN IF quad # 0 THEN Raised ELSE out
  ELSE IF s[i] = PadChar
    THEN IF quad >= 2 /\ quad + pads + 1 >= 4 THEN out
         ELSE A2bScan(s, i + 1, quad, left, IF quad >= 2 THEN pads + 1 ELSE pads, out)
  ELSE LET v == B64Value(s[i]) IN
    IF v >= 64 THEN A2bScan(s, i + 1, quad, left, pads, out)
    ELSE IF quad = 0 THEN A2bScan(s, i + 1, 1, v, 0, out)
    ELSE IF quad = 1
      THEN A2bScan(s, i + 1, 2, v % 16, 0, Append(out, left * 4 + (v \div 16)))
    ELSE IF quad = 2
      THEN A2bScan(s, i + 1, 3, v % 4, 0, Append(out, left * 16 + (v \div 4)))
    ELSE A2bScan(s, i + 1, 0, 0, 0, Append(out, left * 64 + v))

\* base64.b64decode(s): TypeError on None, ValueError on a non-ASCII str,
\* binascii.Error on a wrong number of data characters.
B64Decode(s) ==
  IF s = None \/ s = Raised THEN Raised
  ELSE IF \E i \in 1..Len(s) : s[i] >= 128 THEN Raised
  ELSE A2bScan(s, 1, 0, 0, 0, <<>>)

(***************************************************************************)
(* The hash that stands for the primitives' compression functions: a sum   *)
(* of the bytes weighted by their positions, modulo a prime.  On inputs of *)
(* equal length that differ in one byte it never collides (a weight times  *)
(* a byte difference is no multiple of the prime); on the other inputs of  *)
(* the model its collision freedom is what TLC checks with the claims.     *)
(***************************************************************************)
DigestModulus == 1000003

DigestWeight(i) == 1 + ((i * 7919) % 10007)

RECURSIVE DigestSum(_, _, _)
DigestSum(b, lo, hi) ==
  IF lo > hi THEN 0
  ELSE IF lo = hi THEN (b[lo] + 1) * DigestWeight(lo)
  ELSE LET mid == (lo + hi) \div 2
       IN  DigestSum(b, lo, mid) + DigestSum(b, mid + 1, hi)

Digest(b) == (DigestSum(b, 1, Len(b)) + 65537 * Len(b)) % DigestModulus

\* The n bytes output for the digest d: its first three bytes are d's base-256
\* digits, so that different digests give different outputs.
DigestBytes(d, n) ==
  [j \in 1..n |->
     LET digit == IF j % 3 = 1 THEN d % 256
                  ELSE IF j % 3 = 2 THEN (d \div 256) % 256
                  ELSE (d \div 65536) % 256
     IN  (digit + 31 * ((j - 1) \div 3)) % 256]

RECURSIVE Xor(_, _)
\* a ^ b on bytes
Xor(a, b) == IF a = 0 /\ b = 0 THEN 0 ELSE ((a + b) % 2) + 2 * Xor(a \div 2, b \div 2)

IsBytes(b) == b # None /\ b # Raised

(***************************************************************************)
(* PBKDF2HMAC(SHA256, length, salt, iterations).derive(password)           *)
(***************************************************************************)
HmacBlock == 64

ShaLen == 32

\* HMAC's key: a key longer than the block is hashed first, and the key is then
\* padded with zero bytes to the block size.
HmacKey(k) ==
  LET short == IF Len(k) > HmacBlock THEN DigestBytes(Digest(k), ShaLen) ELSE k
  IN  short \o Rep(0, HmacBlock - Len(short))

Pbkdf2(password, salt, length) ==
  IF ~IsBytes(password) \/ ~IsBytes(salt) THEN Raised
  ELSE DigestBytes(Digest(HmacKey(password) \o salt), length)

(***************************************************************************)
(* AESGCM(key).encrypt(nonce, data, None) and .decrypt(nonce, data, None)  *)
(***************************************************************************)
TagLen == 16

\* AESGCM(key): TypeError unless key is bytes, ValueError unless 128, 192 or 256 bits
AesKeyOk(key) == IsBytes(key) /\ Len(key) \in {16, 24, 32}

\* "Nonce must be between 8 and 128 bytes"
GcmNonceOk(nonce) == IsBytes(nonce) /\ Len(nonce) >= 8 /\ Len(nonce) <= 128

\* The key stream byte at position i (counter mode).
GcmStream(key, nonce, i) == ((Digest(key \o nonce) \div 7) + 37 * i) % 256

GcmCrypt(key, nonce, data) == [i \in 1..Len(data) |-> Xor(data[i], GcmStream(key, nonce, i))]

GcmTag(key, nonce, body) == DigestBytes(Digest(key \o nonce \o body), TagLen)

GcmEncrypt(key, nonce, data) ==
  IF ~AesKeyOk(key) \/ ~GcmNonceOk(nonce) \/ ~IsBytes(data) THEN Raised
  ELSE LET body == GcmCrypt(key, nonce, data)
       IN  body \o GcmTag(key, nonce, body)

\* InvalidTag when the data is shorter than a tag or the tag does not verify.
GcmDecrypt(key, nonce, data) ==
  IF ~AesKeyOk(key) \/ ~GcmNonceOk(nonce) \/ ~IsBytes(data) THEN Raised
  ELSE IF Len(data) < TagLen THEN Raised
  ELSE LET body == Take(data, Len(data) - TagLen)
           tag  == Drop(data, Len(data) - TagLen)
       IN  IF tag # GcmTag(key, nonce, body) THEN Raised
           ELSE GcmCrypt(key, nonce, body)

(***************************************************************************)
(* bcrypt.gensalt(), bcrypt.hashpw(password, salt), bcrypt.checkpw(p, h).  *)
(* A hash is the 60 characters "$2b$12$", 22 of salt and 31 of digest, in  *)
(* bcrypt's own base64 alphabet.  bcrypt reads only the first 72 bytes of  *)
(* the password.                                                           *)
(***************************************************************************)
BcryptMaxPassword == 72

BcryptSaltChars == 22

\* "$2b$12$"
BcryptPrefix == <<36, 50, 98, 36, 49, 50, 36>>

\* The character of the value v (0..63) in bcrypt's alphabet: . / A-Z a-z 0-9
BcryptChar(v) ==
  IF v = 0 THEN 46
  ELSE IF v = 1 THEN 47
  ELSE IF v < 28 THEN 65 + (v - 2)
  ELSE IF v < 54 THEN 97 + (v - 28)
  ELSE 48 + (v - 54)

IsBcryptChar(c) ==
  \/ c = 46 \/ c = 47
  \/ (c >= 65 /\ c <= 90) \/ (c >= 97 /\ c <= 122) \/ (c >= 48 /\ c <= 57)

RECURSIVE BcryptEncode(_)
\* bcrypt's base64 of the bytes b, without padding
BcryptEncode(b) ==
  IF b = <<>> THEN <<>>
  ELSE IF Len(b) = 1
    THEN <<BcryptChar(b[1] \div 4), BcryptChar((b[1] % 4) * 16)>>
  ELSE IF Len(b) = 2
    THEN <<BcryptChar(b[1] \div 4), BcryptChar((b[1] % 4) * 16 + (b[2] \div 16)),
           BcryptChar((b[2] % 16) * 4)>>
  ELSE <<BcryptChar(b[1] \div 4), BcryptChar((b[1] % 4) * 16 + (b[2] \div 16)),
         BcryptChar((b[2] % 16) * 4 + (b[3] \div 64)), BcryptChar(b[3] % 64)>>
       \o BcryptEncode(Drop(b, 3))

\* bcrypt.gensalt(): the prefix and the encoding of 16 random bytes, rnd
BcryptGensalt(rnd) == BcryptPrefix \o BcryptEncode(rnd)

\* Whether s starts as a salt does: the prefix, then 22 characters of the alphabet.
BcryptSaltOk(s) ==
  /\ IsBytes(s)
  /\ Len(s) >= Len(BcryptPrefix) + BcryptSaltChars
  /\ Take(s, Len(BcryptPrefix)) = BcryptPrefix
  /\ \A i \in (Len(BcryptPrefix) + 1)..(Len(BcryptPrefix) + BcryptSaltChars) :
        IsBcryptChar(s[i])

\* bcrypt.hashpw(password, salt): ValueError("Invalid salt") on a malformed salt;
\* the digest is of the salt and of the first 72 bytes of the password.
BcryptHashpw(password, salt) ==
  IF ~IsBytes(password) \/ ~BcryptSaltOk(salt) THEN Raised
  ELSE LET setting == Take(salt, Len(BcryptPrefix) + BcryptSaltChars)
           key     == Take(password, BcryptMaxPassword)
       IN  setting \o BcryptEncode(DigestBytes(Digest(setting \o key), 23))

\* bcrypt.checkpw(password, hashed): hashes the password with the salt that
\* hashed holds and compares.  "True", "False" or "Raised".
BcryptCheckpw(password, hashed) ==
  LET h == BcryptHashpw(password, hashed)
  IN  IF h = Raised THEN "Raised" ELSE IF h = hashed THEN "True" ELSE "False"

(***************************************************************************)
(* encryption/encrypt.py, encryption/decrypt.py                            *)
(***************************************************************************)
KeyLen == 32

NonceLen == 12

SaltLen == 16

Encodable(s) == Utf8Encode(s) # Raised

\* deriveKey with the salt of the call mixed with the number of calls made
\* so far, as if a salt were drawn anew in every call.
deriveKeyFreshSalt(password, salt) ==
  LET key == Pbkdf2(Utf8Encode(password),
                    IF IsBytes(salt) THEN Append(salt, Len(kdfLog)) ELSE salt, KeyLen)
  IN  IF key = Raised THEN None ELSE key

\* deriveKey(password, salt): the key, or None when anything raises.
deriveKey(password, salt) ==
  LET key == Pbkdf2(Utf8Encode(password), salt, KeyLen)
  IN  IF key = Raised THEN None ELSE key

\* encryptApiKey encoding the plaintext as ASCII and dropping what is not.
encryptApiKeyAsciiOnly(apiKey, key, iv) ==
  LET ascii      == IF Encodable(apiKey) THEN SelectSeq(apiKey, LAMBDA c : c < 128)
                    ELSE Raised
      ciphertext == GcmEncrypt(key, iv, ascii)
  IN  IF ciphertext = Raised THEN <<None, None>>
      ELSE <<B64Encode(iv), B64Encode(ciphertext)>>

\* encryptApiKey with a constant nonce instead of the bytes drawn in the call.
encryptApiKeyFixedIv(apiKey, key, iv) ==
  LET fixed      == Rep(0, NonceLen)
      ciphertext == GcmEncrypt(key, fixed, Utf8Encode(apiKey))
  IN  IF ciphertext = Raised THEN <<None, None>>
      ELSE <<B64Encode(fixed), B64Encode(ciphertext)>>

\* encryptApiKey(apiKey, key), iv being what os.urandom(12) returns in the call:
\* (ivB64, ciphertextB64), or (None, None) when anything raises.
encryptApiKey(apiKey, key, iv) ==
  LET ciphertext == GcmEncrypt(key, iv, Utf8Encode(apiKey))
  IN  IF ciphertext = Raised THEN <<None, None>>
      ELSE <<B64Encode(iv), B64Encode(ciphertext)>>

\* decryptApiKey without the check of the authentication tag.
decryptApiKeyNoTag(iv, ciphertext, key) ==
  LET ivBytes         == B64Decode(iv)
      ciphertextBytes == B64Decode(ciphertext)
      decrypted       == IF \/ ivBytes = Raised \/ ciphertextBytes = Raised
                            \/ ~AesKeyOk(key) \/ ~GcmNonceOk(ivBytes)
                            \/ Len(ciphertextBytes) < TagLen
                         THEN Raised
                         ELSE GcmCrypt(key, ivBytes,
                                       Take(ciphertextBytes, Len(ciphertextBytes) - TagLen))
      apiKey          == Utf8Decode(decrypted)
  IN  IF apiKey = Raised THEN None ELSE apiKey

\* decryptApiKey(iv, ciphertext, key): the plaintext, or None when anything raises.
decryptApiKey(iv, ciphertext, key) ==
  LET ivBytes         == B64Decode(iv)
      ciphertextBytes == B64Decode(ciphertext)
      decrypted       == IF ivBytes = Raised \/ ciphertextBytes = Raised THEN Raised
                         ELSE GcmDecrypt(key, ivBytes, ciphertextBytes)
      apiKey          == Utf8Decode(decrypted)
  IN  IF apiKey = Raised THEN None ELSE apiKey

(***************************************************************************)
(* storage/database.py hashPassword, auth/password.py verifyPassword       *)
(***************************************************************************)
\* hashPassword with a constant salt instead of the one drawn in the call.
hashPasswordFixedSalt(password, rnd) ==
  BcryptHashpw(Utf8Encode(password), BcryptGensalt(Rep(0, SaltLen)))

\* hashPassword(password), rnd being the 16 random bytes bcrypt.gensalt() draws.
\* Nothing is caught: Raised when password.encode() raises.
hashPassword(password, rnd) ==
  BcryptHashpw(Utf8Encode(password), BcryptGensalt(rnd))

\* verifyPassword(storedHash, password): "True" or "False", or "Raised" when
\* password.encode() or bcrypt.checkpw raises (nothing is caught).
verifyPassword(storedHash, password) ==
  BcryptCheckpw(Utf8Encode(password), storedHash)

(***************************************************************************)
(* The values the calls are made with.                                     *)
(***************************************************************************)
NoCall == [call |-> "none"]

MaxPlain == 2

NumRandom == 2

\* What os.urandom(n) can return: NumRandom of the 256^n values.
Urandom(n) == { [i \in 1..n |-> (r * 50 + i) % 256] : r \in 1..NumRandom }

\* "a", "b", "a\0"
PwA == <<97>>

PwB == <<98>>

PwANul == <<97, 0>>

\* "aaa...ab" and "aaa...ac": 72 times "a", then one more character
PwLongB == Rep(97, BcryptMaxPassword) \o <<98>>

PwLongC == Rep(97, BcryptMaxPassword) \o <<99>>

\* a lone surrogate, which str.encode() refuses
PwSurrogate == <<56320>>

\* "sk-12345", the secret of the specification's scenario
SecretText == <<115, 107, 45, 49, 50, 51, 52, 53>>

\* The plaintexts: the prefixes of the secret up to MaxPlain characters (the
\* empty string too), a two-byte character, and a string that cannot be encoded.
Plaintexts == { Take(SecretText, n) : n \in 0..MaxPlain } \cup {<<233>>, PwSurrogate}

(***************************************************************************)
(* deriveKey called on its own, as tests/testEncryption.py setUp does.     *)
(***************************************************************************)
MaxDerive == 2

KdfPasswords == {PwA, PwB, PwANul, PwLongB, PwSurrogate}

KdfSalts == Urandom(SaltLen) \cup {None}

KdfDerive ==
  /\ Len(kdfLog) < MaxDerive
  /\ \E p \in KdfPasswords, s \in KdfSalts :
       kdfLog' = Append(kdfLog, [password |-> p, salt |-> s, key |-> deriveKey(p, s)])
  /\ UNCHANGED <<mainVars, storeVars, clipVars, enc, stored, corrupted, dec, encLog, hashLog, ver>>

(***************************************************************************)
(* encryptApiKey, then decryptApiKey on what was stored, as                *)
(* tests/testEncryption.py does; in between a byte of the stored           *)
(* ciphertext may be changed.                                              *)
(***************************************************************************)
\* Keys as deriveKey returns them, and one that is no AES key (5 bytes).
CipherKeys ==
  { deriveKey(p, s) : p \in {PwA, PwB}, s \in {CHOOSE s \in Urandom(SaltLen) : TRUE} }
  \cup {<<1, 2, 3, 4, 5>>}

\* The characters a stored character can be changed to: those of the base64
\* alphabet, "=", "!" and a non-ASCII one.
StoredChars == { B64Char(v) : v \in 0..63 } \cup {PadChar, 33, 233}

CipherEncrypt ==
  /\ enc = NoCall
  /\ \E m \in Plaintexts, k \in CipherKeys, iv \in Urandom(NonceLen) :
       LET out == encryptApiKey(m, k, iv)
       IN  /\ enc' = [apiKey |-> m, key |-> k, iv |-> iv, out |-> out]
           /\ stored' = out
  /\ UNCHANGED <<mainVars, storeVars, clipVars, kdfLog, corrupted, dec, encLog, hashLog, ver>>

\* One character of the stored ciphertext changes.
CipherCorrupt ==
  /\ enc # NoCall /\ dec = NoCall /\ ~corrupted
  /\ stored[2] # None
  /\ \E i \in 1..Len(stored[2]), c \in StoredChars :
       /\ c # stored[2][i]
       /\ stored' = <<stored[1], [stored[2] EXCEPT ![i] = c]>>
  /\ corrupted' = TRUE
  /\ UNCHANGED <<mainVars, storeVars, clipVars, kdfLog, enc, dec, encLog, hashLog, ver>>

CipherDecrypt ==
  /\ enc # NoCall /\ dec = NoCall
  /\ \E k \in CipherKeys :
       dec' = [iv |-> stored[1], ciphertext |-> stored[2], key |-> k,
               result |-> decryptApiKey(stored[1], stored[2], k)]
  /\ UNCHANGED <<mainVars, storeVars, clipVars, kdfLog, enc, stored, corrupted, encLog, hashLog, ver>>

(***************************************************************************)
(* encryptApiKey called several times in a row.                            *)
(***************************************************************************)
MaxEncrypts == 2

NonceEncrypt ==
  /\ Len(encLog) < MaxEncrypts
  /\ \E m \in Plaintexts, k \in CipherKeys, iv \in Urandom(NonceLen) :
       encLog' = Append(encLog, [apiKey |-> m, key |-> k, iv |-> iv,
                                 out |-> encryptApiKey(m, k, iv)])
  /\ UNCHANGED <<mainVars, storeVars, clipVars, kdfLog, enc, stored, corrupted, dec, hashLog, ver>>

(***************************************************************************)
(* hashPassword and verifyPassword called on their own, as                 *)
(* tests/testAuth.py does.                                                 *)
(***************************************************************************)
MaxHashes == 2

GatePasswords == {PwA, PwB, PwLongB, PwLongC, PwSurrogate}

GateHash ==
  /\ Len(hashLog) < MaxHashes
  /\ \E p \in GatePasswords, rnd \in Urandom(SaltLen) :
       hashLog' = Append(hashLog, [password |-> p, rnd |-> rnd,
                                   hash |-> hashPassword(p, rnd)])
  /\ UNCHANGED <<mainVars, storeVars, clipVars, kdfLog, enc, stored, corrupted, dec, encLog, ver>>

\* verifyPassword on a hash that hashPassword returned
GateVerify ==
  /\ \E i \in 1..Len(hashLog), p \in GatePasswords :
       /\ hashLog[i].hash # Raised
       /\ ver' = [of |-> i, storedHash |-> hashLog[i].hash, password |-> p,
                  result |-> verifyPassword(hashLog[i].hash, p)]
  /\ UNCHANGED <<mainVars, storeVars, clipVars, kdfLog, enc, stored, corrupted, dec, encLog, hashLog>>

(***************************************************************************)
(* storage/database.py: the encrypted database files.  A database file is  *)
(* [keyCheck, users, api_keys]: what lets SQLCipher tell whether a key is  *)
(* the one the pages were encrypted under (the file does not hold the key  *)
(* itself), and the rows of its two tables in the order of their ids.      *)
(***************************************************************************)
NoDb == [absent |-> TRUE]

NoConn == "None"

HexDigit(v) == IF v < 10 THEN 48 + v ELSE 87 + v

\* binascii.hexlify(b): two characters "0".."9", "a".."f" for every byte
Hexlify(b) ==
  [i \in 1..(2 * Len(b)) |->
     HexDigit(IF i % 2 = 1 THEN b[(i + 1) \div 2] \div 16 ELSE b[i \div 2] % 16)]

\* initializeDatabase writing the key into the users table of a new file.
initializeDatabaseKeyInFile(dbPath, key) ==
  LET key_hex == Utf8Decode(Hexlify(key))
  IN  IF dbs[dbPath] = NoDb
      THEN [conn |-> dbPath,
            db   |-> [keyCheck |-> Digest(key_hex), users |-> <<key_hex>>,
                      api_keys |-> <<>>]]
      ELSE IF dbs[dbPath].keyCheck = Digest(key_hex)
           THEN [conn |-> dbPath, db |-> dbs[dbPath]]
           ELSE [conn |-> NoConn, db |-> dbs[dbPath]]

\* initializeDatabase(dbPath, key): [conn, db], db being the file afterwards.
\* A file that is absent is created with empty tables; one that exists opens
\* only under the key it was created with (the SELECT raises DatabaseError
\* under any other key).
initializeDatabase(dbPath, key) ==
  LET key_hex == Utf8Decode(Hexlify(key))
  IN  IF dbs[dbPath] = NoDb
      THEN [conn |-> dbPath,
            db   |-> [keyCheck |-> Digest(key_hex), users |-> <<>>, api_keys |-> <<>>]]
      ELSE IF dbs[dbPath].keyCheck = Digest(key_hex)
           THEN [conn |-> dbPath, db |-> dbs[dbPath]]
           ELSE [conn |-> NoConn, db |-> dbs[dbPath]]

\* storePasswordHash(conn, hashedPassword): the file with the row inserted
storePasswordHash(db, hashedPassword) ==
  [db EXCEPT !.users = Append(@, Utf8Decode(hashedPassword))]

\* getStoredPasswordHash(conn): the first row of users, or None
getStoredPasswordHash(db) ==
  IF db.users = <<>> THEN None ELSE Utf8Encode(db.users[1])

HasLabel(db, label) == \E i \in 1..Len(db.api_keys) : db.api_keys[i].label = label

\* addApiKey on a table whose label column is not UNIQUE
addApiKeyNoUnique(db, label, iv, ciphertext) ==
  [ok |-> TRUE,
   db |-> [db EXCEPT !.api_keys =
             Append(@, [label |-> label, iv |-> iv, ciphertext |-> ciphertext])]]

\* addApiKey as INSERT OR REPLACE: the row of a label that exists is rewritten
addApiKeyReplace(db, label, iv, ciphertext) ==
  IF HasLabel(db, label)
  THEN [ok |-> TRUE,
        db |-> [db EXCEPT !.api_keys =
                  [i \in 1..Len(@) |->
                     IF @[i].label = label
                     THEN [label |-> label, iv |-> iv, ciphertext |-> ciphertext]
                     ELSE @[i]]]]
  ELSE [ok |-> TRUE,
        db |-> [db EXCEPT !.api_keys =
                  Append(@, [label |-> label, iv |-> iv, ciphertext |-> ciphertext])]]

\* addApiKey(conn, label, iv, ciphertext): [ok, db]; the label is UNIQUE
addApiKey(db, label, iv, ciphertext) ==
  IF HasLabel(db, label) THEN [ok |-> FALSE, db |-> db]
  ELSE [ok |-> TRUE,
        db |-> [db EXCEPT !.api_keys =
                  Append(@, [label |-> label, iv |-> iv, ciphertext |-> ciphertext])]]

\* getAllApiKeys(conn): the labels
getAllApiKeys(db) == [i \in 1..Len(db.api_keys) |-> db.api_keys[i].label]

\* getApiKeyByLabel(conn, label): (iv, ciphertext), or None
getApiKeyByLabel(db, label) ==
  IF HasLabel(db, label)
  THEN LET i == CHOOSE i \in 1..Len(db.api_keys) : db.api_keys[i].label = label
       IN  <<db.api_keys[i].iv, db.api_keys[i].ciphertext>>
  ELSE None

(***************************************************************************)
(* storage/storage.py                                                      *)
(***************************************************************************)
IsSpace(c) == c \in {9, 10, 11, 12, 13, 28, 29, 30, 31, 32, 133, 160}

RECURSIVE LStrip(_)
LStrip(s) == IF s # <<>> /\ IsSpace(Head(s)) THEN LStrip(Tail(s)) ELSE s

RECURSIVE RStrip(_)
RStrip(s) ==
  IF s # <<>> /\ IsSpace(s[Len(s)]) THEN RStrip(SubSeq(s, 1, Len(s) - 1)) ELSE s

\* str.strip()
Strip(s) == RStrip(LStrip(s))

\* loadApiKeys leaving out the record added last
loadApiKeysButLast(db) ==
  LET labels == getAllApiKeys(db)
  IN  [i \in 1..(Len(labels) - 1) |-> [label |-> labels[i]]]

\* loadApiKeys(conn): a {"label": label} for every label
loadApiKeys(db) ==
  LET labels == getAllApiKeys(db)
  IN  [i \in 1..Len(labels) |-> [label |-> labels[i]]]

\* retrieveApiKey(conn, label, encryptionKey): the plaintext, or None
retrieveApiKey(db, label, key) ==
  LET record == getApiKeyByLabel(db, label)
  IN  IF record = None THEN None
      ELSE LET apiKey == decryptApiKey(record[1], record[2], key)
           IN  IF Truthy(apiKey) THEN apiKey ELSE None

\* addApiKeySecurely without its two checks for empty input
addApiKeySecurelyNoEmptyCheck(db, key, labelInput, apiKeyInput, iv) ==
  LET label  == Strip(labelInput)
      apiKey == Strip(apiKeyInput)
      out    == encryptApiKey(apiKey, key, iv)
  IN  IF Truthy(out[1]) /\ Truthy(out[2])
      THEN addApiKey(db, label, out[1], out[2])
      ELSE [ok |-> FALSE, db |-> db]

\* addApiKeySecurely storing the secret as it is when encryptApiKey fails
addApiKeySecurelyPlainFallback(db, key, labelInput, apiKeyInput, iv) ==
  LET label  == Strip(labelInput)
      apiKey == Strip(apiKeyInput)
      out    == encryptApiKey(apiKey, key, iv)
  IN  IF ~Truthy(label) \/ ~Truthy(apiKey) THEN [ok |-> FALSE, db |-> db]
      ELSE IF Truthy(out[1]) /\ Truthy(out[2])
           THEN addApiKey(db, label, out[1], out[2])
           ELSE addApiKey(db, label, <<>>, apiKey)

\* addApiKeySecurely storing what was typed as it was typed
addApiKeySecurelyNoStrip(db, key, labelInput, apiKeyInput, iv) ==
  LET out == encryptApiKey(apiKeyInput, key, iv)
  IN  IF ~Truthy(labelInput) \/ ~Truthy(apiKeyInput) THEN [ok |-> FALSE, db |-> db]
      ELSE IF Truthy(out[1]) /\ Truthy(out[2])
           THEN addApiKey(db, labelInput, out[1], out[2])
           ELSE [ok |-> FALSE, db |-> db]

\* addApiKeySecurely(conn, encryptionKey), labelInput and apiKeyInput being
\* what the user types and iv what os.urandom returns: [ok, db].
addApiKeySecurely(db, key, labelInput, apiKeyInput, iv) ==
  LET label  == Strip(labelInput)
      apiKey == Strip(apiKeyInput)
      out    == encryptApiKey(apiKey, key, iv)
  IN  IF ~Truthy(label) \/ ~Truthy(apiKey) THEN [ok |-> FALSE, db |-> db]
      ELSE IF Truthy(out[1]) /\ Truthy(out[2])
           THEN addApiKey(db, label, out[1], out[2])
           ELSE [ok |-> FALSE, db |-> db]

(***************************************************************************)
(* auth/password.py authenticateUser, encryption/encrypt.py                *)
(* getEncryptionKey, config/configManager.py                               *)
(***************************************************************************)
\* authenticateUser(conn), password being what the user types: "True", "False",
\* or "Raised" when verifyPassword raises.
authenticateUser(db, password) ==
  LET storedHash == getStoredPasswordHash(db)
  IN  IF storedHash = None THEN "False" ELSE verifyPassword(storedHash, password)

\* getEncryptionKey deriving the key from the salt alone.
getEncryptionKeyNoPassword(password, draw) ==
  LET salt == IF saltFile = None THEN draw ELSE saltFile
  IN  [salt |-> salt, key |-> deriveKey(<<>>, salt), generated |-> saltFile = None]

\* getEncryptionKey drawing a new salt in every call, whether the file is
\* there or not.
getEncryptionKeyNewSalt(password, draw) ==
  [salt |-> draw, key |-> deriveKey(password, draw), generated |-> TRUE]

\* getEncryptionKey(password), draw being what os.urandom(16) returns when
\* config/salt.bin is absent: [salt, key, generated], salt being the file
\* afterwards and generated whether the call drew and wrote a salt.
getEncryptionKey(password, draw) ==
  LET salt == IF saltFile = None THEN draw ELSE saltFile
  IN  [salt |-> salt, key |-> deriveKey(password, salt), generated |-> saltFile = None]

\* listProfiles()
listProfiles == DOMAIN profiles

\* getProfileDatabasePath(profileName)
getProfileDatabasePath(name) == profiles[name]

\* addProfile(profileName, dbPath): the profiles afterwards
addProfile(name, dbPath) ==
  [n \in DOMAIN profiles \cup {name} |-> IF n = name THEN dbPath ELSE profiles[n]]

(***************************************************************************)
(* main.py: createNewDatabase and selectExistingProfile.  Both return      *)
(* [profileName, conn, saltFile, dbs, profiles]: the pair the code returns *)
(* and the files as the call leaves them.                                  *)
(***************************************************************************)
NoProfile ==
  [profileName |-> None, conn |-> NoConn,
   saltFile |-> saltFile, dbs |-> dbs, profiles |-> profiles, saltCall |-> saltCall]

\* A vault exists: a database file that holds a password hash or records.
VaultExists ==
  \E d \in DOMAIN dbs :
    dbs[d] # NoDb /\ (dbs[d].users # <<>> \/ dbs[d].api_keys # <<>>)

\* What a getEncryptionKey call that returned k did: whether the salt file was
\* present, whether a salt was generated, whether the file is as before,
\* whether the key is the one of the salt that was present, whether the call
\* failed, whether a vault existed, and whether the call was the one of
\* createNewDatabase for a database file it then created.
SaltCallOf(k, password) ==
  [present   |-> saltFile # None,
   generated |-> k.generated,
   kept      |-> k.salt = saltFile,
   fromSalt  |-> k.key = deriveKey(password, saltFile),
   failed    |-> k.key = None,
   vaults    |-> VaultExists,
   created   |-> FALSE]

\* The outcome after getEncryptionKey returned k and the step failed.
FailedAfterKey(k, password) ==
  [NoProfile EXCEPT !.saltFile = k.salt, !.saltCall = SaltCallOf(k, password)]

\* The part the three branches that connect to an existing database share:
\* getUserPassword, getEncryptionKey, initializeDatabase.
ConnectExisting(name, dbPath, password, draw) ==
  LET k    == getEncryptionKey(password, draw)
      init == initializeDatabase(dbPath, k.key)
  IN  IF k.key = None \/ init.conn = NoConn
      THEN FailedAfterKey(k, password)
      ELSE [FailedAfterKey(k, password) EXCEPT !.profileName = name, !.conn = init.conn]

\* createNewDatabase(osFlags): nameInput is the profile name typed, dirOk
\* whether the directory typed exists, dbPath the path of the file named,
\* password what getUserPassword returns, draw and rnd the random bytes of
\* getEncryptionKey and of bcrypt.gensalt.
createNewDatabase(nameInput, dirOk, dbPath, password, draw, rnd) ==
  LET name == Strip(nameInput)
      k    == getEncryptionKey(password, draw)
  IN  IF ~Truthy(name) THEN NoProfile
      ELSE IF name \in listProfiles
      THEN IF dbs[getProfileDatabasePath(name)] = NoDb THEN NoProfile
           ELSE ConnectExisting(name, getProfileDatabasePath(name), password, draw)
      ELSE IF ~dirOk THEN NoProfile
      ELSE IF dbs[dbPath] # NoDb THEN ConnectExisting(name, dbPath, password, draw)
      ELSE IF k.key = None THEN FailedAfterKey(k, password)
      ELSE LET init   == initializeDatabase(dbPath, k.key)
               hashed == hashPassword(password, rnd)
           IN  IF hashed = Raised
               THEN [FailedAfterKey(k, password) EXCEPT
                       !.dbs = [dbs EXCEPT ![dbPath] = init.db],
                       !.saltCall.created = TRUE]
               ELSE [profileName |-> name, conn |-> init.conn, saltFile |-> k.salt,
                     saltCall |-> [SaltCallOf(k, password) EXCEPT !.created = TRUE],
                     dbs |-> [dbs EXCEPT ![dbPath] = storePasswordHash(init.db, hashed)],
                     profiles |-> addProfile(name, dbPath)]

\* selectExistingProfile(osFlags): selected is what selectItem returns, one of
\* the profiles or None.
selectExistingProfile(selected, password, draw) ==
  IF listProfiles = {} \/ ~Truthy(selected) THEN NoProfile
  ELSE IF dbs[getProfileDatabasePath(selected)] = NoDb THEN NoProfile
  ELSE ConnectExisting(selected, getProfileDatabasePath(selected), password, draw)

(***************************************************************************)
(* main.py main(): one action for every step at which main reads input or  *)
(* calls into the vault.  A process runs from MainStart to MainProcessExit;*)
(* the salt file, the profiles and the database files outlive it.          *)
(***************************************************************************)
\* What the user types.  Profile names "w" and "h" (or nothing), labels " k "
\* (or nothing), secrets "sk", nothing, or a string that cannot be encoded.
ProfileInputs == {<<>>, <<119>>, <<104>>}

DbPaths == {"d1", "d2"}

LabelInputs == {<<>>, <<32, 107, 32>>}

SecretInputs == {<<>>, Take(SecretText, 2), PwSurrogate}

\* The passwords typed where bcrypt gets them (no NUL character: what bcrypt
\* does with one depends on its version), and where only deriveKey does.
BcryptPrompts == {PwA, PwB, PwSurrogate}

KeyPrompts == {PwA, PwB, PwANul, PwSurrogate}

\* What os.urandom(n) can return in a run of main: MainRandom of the values.
MainRandom == 1

MainUrandom(n) == { [i \in 1..n |-> (r * 50 + i) % 256] : r \in 1..MainRandom }

\* In main the salt of the key is what varies from draw to draw; the nonce of
\* a record and the salt of bcrypt are one draw each there (SpecNonce and
\* SpecGate are about the draws of these two).
MainNonce == CHOOSE iv \in MainUrandom(NonceLen) : TRUE

MainGensalt == CHOOSE rnd \in MainUrandom(SaltLen) : TRUE

persistentVars == <<saltFile, profiles, dbs>>

MainStart ==
  /\ pc = "idle"
  /\ pc' = "profile"
  /\ UNCHANGED <<harnessVars, storeVars, clipVars, persistentVars, conn, profileName, encryptionKey, apiKeys,
                 selectedLabel, decryptedKey, clipboard, authResult, authPassword,
                 keyPassword, calls, origin, saltCall>>

\* Step 4 with what createNewDatabase or selectExistingProfile returned
ProfileStep(r) ==
  /\ profileName' = r.profileName
  /\ conn' = r.conn
  /\ saltFile' = r.saltFile
  /\ dbs' = r.dbs
  /\ profiles' = r.profiles
  /\ saltCall' = r.saltCall
  /\ pc' = IF Truthy(r.profileName) THEN "auth" ELSE "exit"
  /\ UNCHANGED <<harnessVars, storeVars, clipVars, encryptionKey, apiKeys, selectedLabel, decryptedKey,
                 clipboard, authResult, authPassword, keyPassword, calls, origin>>

\* Step 4, no profile yet or the answer is not "y"
MainCreateNewDatabase ==
  /\ pc = "profile"
  /\ \E nameInput \in ProfileInputs, dirOk \in BOOLEAN, dbPath \in DbPaths,
        password \in BcryptPrompts, draw \in MainUrandom(SaltLen), rnd \in {MainGensalt} :
       ProfileStep(createNewDatabase(nameInput, dirOk, dbPath, password, draw, rnd))

\* Step 4, there are profiles and the answer is "y"
MainSelectExistingProfile ==
  /\ pc = "profile"
  /\ listProfiles # {}
  /\ \E selected \in listProfiles \cup {None}, password \in KeyPrompts,
        draw \in MainUrandom(SaltLen) :
       ProfileStep(selectExistingProfile(selected, password, draw))

\* Step 5 going on to step 6 whatever authenticateUser returned.
MainAuthenticateUserUnchecked ==
  /\ pc = "auth"
  /\ \E password \in BcryptPrompts :
       /\ authResult' = authenticateUser(dbs[conn], password)
       /\ authPassword' = password
       /\ pc' = "key"
  /\ UNCHANGED <<harnessVars, storeVars, clipVars, persistentVars, conn, profileName, encryptionKey, apiKeys,
                 selectedLabel, decryptedKey, clipboard, keyPassword, calls, origin, saltCall>>

\* Step 5: authenticateUser; anything but True ends the process (False by
\* sys.exit(1), an exception of verifyPassword by the traceback).
MainAuthenticateUser ==
  /\ pc = "auth"
  /\ \E password \in BcryptPrompts :
       LET result == authenticateUser(dbs[conn], password)
       IN  /\ authResult' = result
           /\ authPassword' = password
           /\ pc' = IF result = "True" THEN "key" ELSE "exit"
  /\ UNCHANGED <<harnessVars, storeVars, clipVars, persistentVars, conn, profileName, encryptionKey, apiKeys,
                 selectedLabel, decryptedKey, clipboard, keyPassword, calls, origin, saltCall>>

\* Step 6, first half: getEncryptionKey(getUserPassword())
MainGetEncryptionKey ==
  /\ pc = "key"
  /\ \E password \in KeyPrompts, draw \in MainUrandom(SaltLen) :
       LET k == getEncryptionKey(password, draw)
       IN  /\ keyPassword' = password
           /\ encryptionKey' = k.key
           /\ saltFile' = k.salt
           /\ saltCall' = SaltCallOf(k, password)
           /\ pc' = IF k.key = None THEN "exit" ELSE "load"
  /\ UNCHANGED <<harnessVars, storeVars, clipVars, profiles, dbs, conn, profileName, apiKeys, selectedLabel,
                 decryptedKey, clipboard, authResult, authPassword, calls, origin>>

\* Step 6, second half: loadApiKeys
MainLoadApiKeys ==
  /\ pc = "load"
  /\ apiKeys' = loadApiKeys(dbs[conn])
  /\ calls' = calls \cup {"loadApiKeys"}
  /\ pc' = IF apiKeys' = <<>> THEN "offer" ELSE "select"
  /\ UNCHANGED <<harnessVars, storeVars, clipVars, persistentVars, conn, profileName, encryptionKey,
                 selectedLabel, decryptedKey, clipboard, authResult, authPassword,
                 keyPassword, origin, saltCall>>

\* Step 6, no key yet and the answer is "y": addApiKeySecurely, loadApiKeys
MainAddApiKeySecurely ==
  /\ pc = "offer"
  /\ \E labelInput \in LabelInputs, apiKeyInput \in SecretInputs, iv \in {MainNonce} :
       LET r == addApiKeySecurely(dbs[conn], encryptionKey, labelInput, apiKeyInput, iv)
       IN  /\ dbs' = [dbs EXCEPT ![conn] = r.db]
           /\ apiKeys' = loadApiKeys(r.db)
           /\ origin' = IF r.ok
                        THEN origin \cup {[db |-> conn, label |-> Strip(labelInput),
                                           password |-> keyPassword, salt |-> saltFile,
                                           apiKey |-> Strip(apiKeyInput)]}
                        ELSE origin
           /\ pc' = IF apiKeys' = <<>> THEN "exit" ELSE "select"
  /\ calls' = calls \cup {"addApiKeySecurely", "loadApiKeys"}
  /\ UNCHANGED <<harnessVars, storeVars, clipVars, saltFile, profiles, conn, profileName, encryptionKey,
                 selectedLabel, decryptedKey, clipboard, authResult, authPassword,
                 keyPassword, saltCall>>

\* Step 6, no key yet and the answer is not "y"
MainDeclineAdd ==
  /\ pc = "offer"
  /\ pc' = "exit"
  /\ UNCHANGED <<harnessVars, storeVars, clipVars, persistentVars, conn, profileName, encryptionKey, apiKeys,
                 selectedLabel, decryptedKey, clipboard, authResult, authPassword,
                 keyPassword, calls, origin, saltCall>>

\* Step 7: selectItem returns one of the labels, or None
MainSelectItem ==
  /\ pc = "select"
  /\ \E selected \in { apiKeys[i].label : i \in 1..Len(apiKeys) } \cup {None} :
       /\ selectedLabel' = selected
       /\ pc' = IF Truthy(selected) THEN "retrieve" ELSE "exit"
  /\ UNCHANGED <<harnessVars, storeVars, clipVars, persistentVars, conn, profileName, encryptionKey, apiKeys,
                 decryptedKey, clipboard, authResult, authPassword, keyPassword, calls,
                 origin, saltCall>>

\* Step 8 going on to step 9 whatever retrieveApiKey returned.
MainRetrieveApiKeyUnchecked ==
  /\ pc = "retrieve"
  /\ decryptedKey' = retrieveApiKey(dbs[conn], selectedLabel, encryptionKey)
  /\ calls' = calls \cup {"retrieveApiKey"}
  /\ pc' = "copy"
  /\ UNCHANGED <<harnessVars, storeVars, clipVars, persistentVars, conn, profileName, encryptionKey, apiKeys,
                 selectedLabel, clipboard, authResult, authPassword, keyPassword, origin, saltCall>>

\* Step 8: retrieveApiKey
MainRetrieveApiKey ==
  /\ pc = "retrieve"
  /\ decryptedKey' = retrieveApiKey(dbs[conn], selectedLabel, encryptionKey)
  /\ calls' = calls \cup {"retrieveApiKey"}
  /\ pc' = IF decryptedKey' = None THEN "exit" ELSE "copy"
  /\ UNCHANGED <<harnessVars, storeVars, clipVars, persistentVars, conn, profileName, encryptionKey, apiKeys,
                 selectedLabel, clipboard, authResult, authPassword, keyPassword, origin, saltCall>>

\* Step 9: copyToClipboard
MainCopyToClipboard ==
  /\ pc = "copy"
  /\ clipboard' = decryptedKey
  /\ calls' = calls \cup {"copyToClipboard"}
  /\ pc' = "done"
  /\ UNCHANGED <<harnessVars, storeVars, clipVars, persistentVars, conn, profileName, encryptionKey, apiKeys,
                 selectedLabel, decryptedKey, authResult, authPassword, keyPassword,
                 origin, saltCall>>

\* The process ends: the timer and clearClipboardOnExit empty the clipboard.
MainProcessExit ==
  /\ pc \in {"exit", "done"}
  /\ pc' = "idle"
  /\ clipboard' = <<>>
  /\ conn' = NoConn
  /\ profileName' = None
  /\ encryptionKey' = None
  /\ apiKeys' = <<>>
  /\ selectedLabel' = None
  /\ decryptedKey' = None
  /\ authResult' = "none"
  /\ authPassword' = None
  /\ keyPassword' = None
  /\ calls' = {}
  /\ saltCall' = NoCall
  /\ UNCHANGED <<harnessVars, storeVars, clipVars, persistentVars, origin>>

\* Between two processes config/salt.bin goes missing: the file is removed, or
\* the next process is started in another directory (the path is relative).
SaltFileLost ==
  /\ pc = "idle"
  /\ saltFile # None
  /\ saltFile' = None
  /\ UNCHANGED <<harnessVars, storeVars, clipVars, profiles, dbs, pc, conn, profileName, encryptionKey,
                 apiKeys, selectedLabel, decryptedKey, clipboard, authResult,
                 authPassword, keyPassword, calls, origin, saltCall>>

(***************************************************************************)
(* The storage layer called on a vault of its own, as tests/testStorage.py *)
(* and tests/testIntegration.py do: the vault is the file StoreDb, opened  *)
(* in setUp, and the calls are made on the open connection in any order.   *)
(***************************************************************************)
StoreDb == "d1"

MaxUsers == 2

MaxRows == 3

\* setUp's key, and the key of another password
StoreKey == deriveKey(PwA, CHOOSE salt \in MainUrandom(SaltLen) : TRUE)

OtherKey == deriveKey(PwB, CHOOSE salt \in MainUrandom(SaltLen) : TRUE)

StoreKeys == {StoreKey, OtherKey}

\* b"x", which is no bcrypt hash
MalformedHash == <<120>>

\* The hashes handed to storePasswordHash: hashPassword's of "a" and of "b",
\* and b"x"
StoreHashes ==
  {hashPassword(PwA, MainGensalt), hashPassword(PwB, MainGensalt), MalformedHash}

StorePasswords == {PwA, PwB, PwSurrogate}

\* The labels typed: "", " ", " k " and "m"
StoreLabelInputs == {<<>>, <<32>>, <<32, 107, 32>>, <<109>>}

\* The labels asked for: " k ", "k" and "m"
StoreLabels == {<<32, 107, 32>>, <<107>>, <<109>>}

\* The secrets typed: "", " s", "t" and a string that cannot be encoded
StoreSecretInputs == {<<>>, <<32, 115>>, <<116>>, PwSurrogate}

storeFrame ==
  <<harnessVars, clipVars, saltFile, profiles, pc, profileName, encryptionKey, apiKeys,
    selectedLabel, decryptedKey, clipboard, authResult, authPassword, keyPassword,
    calls, origin, saltCall>>

\* setUp, which creates the vault under StoreKey, and every later session,
\* which opens it under a key: initializeDatabase(dbPath, key)
StoreSetUp ==
  /\ conn = NoConn
  /\ \E key \in IF dbs[StoreDb] = NoDb THEN {StoreKey} ELSE StoreKeys :
       LET r == initializeDatabase(StoreDb, key)
       IN  /\ conn' = r.conn
           /\ dbs' = [dbs EXCEPT ![StoreDb] = r.db]
           /\ storeCall' = [call |-> "initializeDatabase", key |-> key,
                            result |-> r.conn, before |-> dbs[StoreDb]]
  /\ UNCHANGED <<storeFrame, inserted>>

\* The process that holds the connection ends.
StoreClose ==
  /\ conn # NoConn
  /\ conn' = NoConn
  /\ storeCall' = [call |-> "close", result |-> NoConn, before |-> dbs[StoreDb]]
  /\ UNCHANGED <<storeFrame, dbs, inserted>>

StoreStorePasswordHash ==
  /\ conn # NoConn
  /\ Len(dbs[StoreDb].users) < MaxUsers
  /\ \E h \in StoreHashes :
       /\ dbs' = [dbs EXCEPT ![StoreDb] = storePasswordHash(@, h)]
       /\ storeCall' = [call |-> "storePasswordHash", hashedPassword |-> h,
                        result |-> TRUE, before |-> dbs[StoreDb]]
  /\ UNCHANGED <<storeFrame, conn, inserted>>

StoreGetStoredPasswordHash ==
  /\ conn # NoConn
  /\ storeCall' = [call |-> "getStoredPasswordHash",
                   result |-> getStoredPasswordHash(dbs[StoreDb]),
                   before |-> dbs[StoreDb]]
  /\ UNCHANGED <<storeFrame, conn, dbs, inserted>>

StoreAuthenticateUser ==
  /\ conn # NoConn
  /\ \E password \in StorePasswords :
       storeCall' = [call |-> "authenticateUser", password |-> password,
                     result |-> authenticateUser(dbs[StoreDb], password),
                     before |-> dbs[StoreDb]]
  /\ UNCHANGED <<storeFrame, conn, dbs, inserted>>

\* addApiKey(conn, label, *encryptApiKey(apiKey, key)), as test_addLoadApiKey
StoreAddApiKey ==
  /\ conn # NoConn
  /\ Len(dbs[StoreDb].api_keys) < MaxRows
  /\ \E label \in {<<107>>, <<109>>}, apiKey \in {<<>>, <<115>>, <<116>>},
        iv \in MainUrandom(NonceLen) :
       LET out == encryptApiKey(apiKey, StoreKey, iv)
           r   == addApiKey(dbs[StoreDb], label, out[1], out[2])
       IN  /\ dbs' = [dbs EXCEPT ![StoreDb] = r.db]
           /\ storeCall' = [call |-> "addApiKey", label |-> label, iv |-> out[1],
                            ciphertext |-> out[2], result |-> r.ok,
                            before |-> dbs[StoreDb]]
           /\ inserted' =
                IF r.ok
                THEN inserted \cup {[label |-> label, iv |-> out[1], ciphertext |-> out[2],
                                     labelInput |-> label, apiKeyInput |-> apiKey,
                                     key |-> StoreKey, via |-> "addApiKey"]}
                ELSE inserted
  /\ UNCHANGED <<storeFrame, conn>>

StoreAddApiKeySecurely ==
  /\ conn # NoConn
  /\ Len(dbs[StoreDb].api_keys) < MaxRows
  /\ \E labelInput \in StoreLabelInputs, apiKeyInput \in StoreSecretInputs,
        iv \in MainUrandom(NonceLen) :
       LET key == StoreKey
           r   == addApiKeySecurely(dbs[StoreDb], key, labelInput, apiKeyInput, iv)
       IN  /\ dbs' = [dbs EXCEPT ![StoreDb] = r.db]
           /\ storeCall' = [call |-> "addApiKeySecurely", labelInput |-> labelInput,
                            apiKeyInput |-> apiKeyInput, key |-> key, iv |-> iv,
                            result |-> r.ok, before |-> dbs[StoreDb]]
           /\ inserted' =
                IF r.ok
                THEN LET row == r.db.api_keys[Len(r.db.api_keys)]
                     IN  inserted \cup {[label |-> row.label, iv |-> row.iv,
                                         ciphertext |-> row.ciphertext,
                                         labelInput |-> labelInput,
                                         apiKeyInput |-> apiKeyInput, key |-> key,
                                         via |-> "addApiKeySecurely"]}
                ELSE inserted
  /\ UNCHANGED <<storeFrame, conn>>

StoreRetrieveApiKey ==
  /\ conn # NoConn
  /\ \E label \in StoreLabels, key \in StoreKeys :
       storeCall' = [call |-> "retrieveApiKey", label |-> label, key |-> key,
                     result |-> retrieveApiKey(dbs[StoreDb], label, key),
                     before |-> dbs[StoreDb]]
  /\ UNCHANGED <<storeFrame, conn, dbs, inserted>>

StoreLoadApiKeys ==
  /\ conn # NoConn
  /\ storeCall' = [call |-> "loadApiKeys", result |-> loadApiKeys(dbs[StoreDb]),
                   before |-> dbs[StoreDb]]
  /\ UNCHANGED <<storeFrame, conn, dbs, inserted>>

(***************************************************************************)
(* ui/clipboard.py: the thread that calls copyToClipboard, and the threads *)
(* of the threading.Timer objects it starts.  A step of a thread is one    *)
(* call on the clipboard or on a timer; the threads interleave between     *)
(* steps.  A Timer's thread runs                                           *)
(*     self.finished.wait(self.interval)                                   *)
(*     if not self.finished.is_set(): self.function()                      *)
(*     self.finished.set()                                                 *)
(* and cancel() sets finished.  The timers are not daemon threads: at the  *)
(* end of the process the interpreter joins them, then runs the atexit     *)
(* handler clearClipboardOnExit.                                           *)
(***************************************************************************)
MaxCopies == 2

\* The texts copied: "s" and "t"
ClipTexts == {<<115>>, <<116>>}

\* A timer that copyToClipboard has started
NewTimer == [state |-> "waiting", finished |-> FALSE]

\* The Timer object made but start() not called on it.
ClipStartTimerNotStarted ==
  /\ callerPc = "cancelled"
  /\ timers' = Append(timers, [state |-> "done", finished |-> FALSE])
  /\ timer' = Len(timers) + 1
  /\ callerPc' = "idle"
  /\ UNCHANGED <<harnessVars, mainVars, storeVars, clipText, owner, erased>>

\* copyToClipboard, first statement: pyperclip.copy(text)
ClipCopy ==
  /\ callerPc = "idle"
  /\ Len(timers) < MaxCopies
  /\ \E text \in ClipTexts : clipText' = text
  /\ owner' = Len(timers) + 1
  /\ callerPc' = "copied"
  /\ UNCHANGED <<harnessVars, mainVars, storeVars, timer, timers, erased>>

\* copyToClipboard: if timer: timer.cancel()
ClipCancel ==
  /\ callerPc = "copied"
  /\ timers' = IF timer # 0 THEN [timers EXCEPT ![timer].finished = TRUE] ELSE timers
  /\ callerPc' = "cancelled"
  /\ UNCHANGED <<harnessVars, mainVars, storeVars, clipText, timer, owner, erased>>

\* copyToClipboard: timer = threading.Timer(timeout, clearClipboard); timer.start()
ClipStartTimer ==
  /\ callerPc = "cancelled"
  /\ timers' = Append(timers, NewTimer)
  /\ timer' = Len(timers) + 1
  /\ callerPc' = "idle"
  /\ UNCHANGED <<harnessVars, mainVars, storeVars, clipText, owner, erased>>

\* The thread of timer i returns from finished.wait(interval): the interval
\* has passed, or finished was set.
TimerWake(i) ==
  /\ timers[i].state = "waiting"
  /\ timers' = [timers EXCEPT ![i].state = "woken"]
  /\ UNCHANGED <<harnessVars, mainVars, storeVars, clipText, timer, callerPc, owner, erased>>

\* The thread of timer i tests finished.is_set()
TimerCheck(i) ==
  /\ timers[i].state = "woken"
  /\ timers' = [timers EXCEPT ![i] = IF @.finished THEN [@ EXCEPT !.state = "done"]
                                     ELSE [@ EXCEPT !.state = "firing"]]
  /\ UNCHANGED <<harnessVars, mainVars, storeVars, clipText, timer, callerPc, owner, erased>>

\* The thread of timer i runs clearClipboard: pyperclip.copy(''); then
\* finished.set()
TimerClear(i) ==
  /\ timers[i].state = "firing"
  /\ clipText' = <<>>
  /\ owner' = 0
  /\ erased' = IF owner # 0 THEN erased \cup {<<i, owner>>} ELSE erased
  /\ timers' = [timers EXCEPT ![i] = [state |-> "done", finished |-> TRUE]]
  /\ UNCHANGED <<harnessVars, mainVars, storeVars, timer, callerPc>>

\* The calling thread ends: the interpreter starts to join the timers' threads.
ClipExit ==
  /\ callerPc = "idle"
  /\ callerPc' = "exiting"
  /\ UNCHANGED <<harnessVars, mainVars, storeVars, clipText, timer, timers, owner, erased>>

\* All timers' threads have ended: atexit runs clearClipboardOnExit.
ClipClearOnExit ==
  /\ callerPc = "exiting"
  /\ \A i \in 1..Len(timers) : timers[i].state = "done"
  /\ clipText' = <<>>
  /\ owner' = 0
  /\ callerPc' = "exited"
  /\ UNCHANGED <<harnessVars, mainVars, storeVars, timer, timers, erased>>

ClipInit ==
  /\ clipText = <<>>
  /\ timer = 0
  /\ timers = <<>>
  /\ callerPc = "idle"
  /\ owner = 0
  /\ erased = {}

ClipNext ==
  \/ ClipCopy
  \/ ClipCancel
  \/ ClipStartTimer
  \/ \E i \in 1..Len(timers) : TimerWake(i)
  \/ \E i \in 1..Len(timers) : TimerCheck(i)
  \/ \E i \in 1..Len(timers) : TimerClear(i)
  \/ ClipExit
  \/ ClipClearOnExit

MainInit ==
  /\ saltFile = None
  /\ profiles = [n \in {} |-> NoConn]
  /\ dbs = [d \in DbPaths |-> NoDb]
  /\ pc = "idle"
  /\ clipboard = <<>>
  /\ conn = NoConn
  /\ profileName = None
  /\ encryptionKey = None
  /\ apiKeys = <<>>
  /\ selectedLabel = None
  /\ decryptedKey = None
  /\ authResult = "none"
  /\ authPassword = None
  /\ keyPassword = None
  /\ calls = {}
  /\ origin = {}
  /\ saltCall = NoCall
  /\ storeCall = NoCall
  /\ inserted = {}

vars == <<harnessVars, mainVars, storeVars, clipVars>>

HarnessInit ==
  /\ kdfLog = <<>>
  /\ enc = NoCall
  /\ stored = <<None, None>>
  /\ corrupted = FALSE
  /\ dec = NoCall
  /\ encLog = <<>>
  /\ hashLog = <<>>
  /\ ver = NoCall

Init == HarnessInit /\ MainInit /\ ClipInit

SpecKdf == Init /\ [][KdfDerive]_vars

SpecCipher == Init /\ [][CipherEncrypt \/ CipherCorrupt \/ CipherDecrypt]_vars

SpecNonce == Init /\ [][NonceEncrypt]_vars

SpecGate == Init /\ [][GateHash \/ GateVerify]_vars

\* The calls on the records of the test vault
SpecStore ==
  Init /\ [][\/ StoreSetUp \/ StoreClose \/ StoreAddApiKey \/ StoreAddApiKeySecurely
             \/ StoreRetrieveApiKey \/ StoreLoadApiKeys]_vars

\* The calls on the password hash of the test vault
SpecHash ==
  Init /\ [][\/ StoreSetUp \/ StoreClose \/ StoreStorePasswordHash
             \/ StoreGetStoredPasswordHash \/ StoreAuthenticateUser]_vars

\* The threads of the clipboard, interleaved in every way
SpecClip == Init /\ [][ClipNext]_vars

\* The same with the threads scheduled: a thread that can take a step takes
\* one, be it a timer's thread or the calling thread inside copyToClipboard
\* or at the end of the process.  Nothing makes the calling thread call
\* copyToClipboard or end.
SpecClipLive ==
  /\ SpecClip
  /\ WF_vars(ClipCancel)
  /\ WF_vars(ClipStartTimer)
  /\ WF_vars(\E i \in 1..Len(timers) : TimerWake(i))
  /\ WF_vars(\E i \in 1..Len(timers) : TimerCheck(i))
  /\ WF_vars(\E i \in 1..Len(timers) : TimerClear(i))
  /\ WF_vars(ClipClearOnExit)

Next ==
  \/ MainStart
  \/ MainCreateNewDatabase
  \/ MainSelectExistingProfile
  \/ MainAuthenticateUser
  \/ MainGetEncryptionKey
  \/ MainLoadApiKeys
  \/ MainAddApiKeySecurely
  \/ MainDeclineAdd
  \/ MainSelectItem
  \/ MainRetrieveApiKey
  \/ MainCopyToClipboard
  \/ MainProcessExit
  \/ SaltFileLost

Spec == Init /\ [][Next]_vars

(***************************************************************************)
(* The claims about the cipher.                                            *)
(***************************************************************************)
\* C1: decryptApiKey on the (iv, ciphertext) pair that encryptApiKey(m, k)
\* returned, with the same key k, returns exactly m: for every plaintext that is
\* a string of characters (one str.encode() accepts) and every AES key.
EncryptDecryptRoundTrip ==
  (/\ dec # NoCall /\ ~corrupted
   /\ dec.key = enc.key /\ AesKeyOk(enc.key) /\ Encodable(enc.apiKey))
  => /\ enc.out[1] # None /\ enc.out[2] # None
     /\ dec.result = enc.apiKey

\* A plaintext with a two-byte character came back from its ciphertext.
RoundTripWitness ==
  /\ dec # NoCall /\ ~corrupted
  /\ dec.key = enc.key /\ AesKeyOk(enc.key)
  /\ enc.apiKey = <<233>>
  /\ dec.result = <<233>>

\* C2: decryptApiKey with a key other than the one encryptApiKey was given
\* returns None, never a plaintext.
WrongKeyDecryptFails ==
  (dec # NoCall /\ ~corrupted /\ dec.key # enc.key) => dec.result = None

\* A ciphertext made under one AES key was refused under another AES key.
WrongKeyWitness ==
  /\ dec # NoCall /\ ~corrupted
  /\ AesKeyOk(enc.key) /\ AesKeyOk(dec.key) /\ dec.key # enc.key
  /\ enc.out[2] # None /\ enc.apiKey # <<>>
  /\ dec.result = None

\* C3: after one byte of the stored ciphertext changed, decryptApiKey with the
\* right key and the original nonce returns None.
CorruptedCiphertextFails ==
  (dec # NoCall /\ corrupted /\ dec.key = enc.key) => dec.result = None

\* What does hold of a corrupted ciphertext: no other plaintext comes out of it.
CorruptedNeverOtherPlaintext ==
  (dec # NoCall /\ corrupted /\ dec.key = enc.key) => dec.result \in {None, enc.apiKey}

EncOk(e) == e.out[1] # None /\ e.out[2] # None

VerifyTrueIffSamePassword ==
  (ver # NoCall /\ Encodable(ver.password))
  => ver.result = IF ver.password = hashLog[ver.of].password THEN "True" ELSE "False"

\* C10 as claimed: two hashPassword calls on the same password return two
\* different hash encodings.
TwoHashesAlwaysDiffer ==
  \A i, j \in 1..Len(hashLog) :
    (/\ i < j /\ hashLog[i].password = hashLog[j].password
     /\ hashLog[i].hash # Raised /\ hashLog[j].hash # Raised)
    => hashLog[i].hash # hashLog[j].hash

\* C10 as amended: two hashPassword calls on the same password return different
\* hash encodings exactly when bcrypt.gensalt() drew different salts for them,
\* and verifyPassword returns True for the password against each.
TwoHashesDifferBySalt ==
  /\ \A i, j \in 1..Len(hashLog) :
       (/\ i < j /\ hashLog[i].password = hashLog[j].password
        /\ hashLog[i].hash # Raised /\ hashLog[j].hash # Raised)
       => (hashLog[i].hash # hashLog[j].hash) <=> (hashLog[i].rnd # hashLog[j].rnd)
  /\ (ver # NoCall /\ ver.password = hashLog[ver.of].password) => ver.result = "True"

\* The same password was hashed twice with different salts, and it verified
\* against the second hash.
TwoHashesWitness ==
  /\ Len(hashLog) >= 2
  /\ hashLog[1].password = hashLog[2].password
  /\ hashLog[1].rnd # hashLog[2].rnd
  /\ hashLog[1].hash # Raised /\ hashLog[1].hash # hashLog[2].hash
  /\ ver # NoCall /\ ver.of = 2 /\ ver.password = hashLog[2].password
  /\ ver.result = "True"

(***************************************************************************)
(* The claims about a run of main.                                         *)
(***************************************************************************)
\* C4: in every run of main, loadApiKeys, addApiKeySecurely, retrieveApiKey and
\* copyToClipboard are called only after authenticateUser returned True in the
\* same session; when it returned False the session ends with none of them
\* called.
VaultCallsOnlyAfterAuth ==
  /\ calls # {} => authResult = "True"
  /\ pc \in {"key", "load", "offer", "select", "retrieve", "copy", "done"}
     => authResult = "True"
  /\ authResult = "False" => (pc = "exit" /\ calls = {})

\* A session went through all four operations after authenticateUser
\* returned True.
AllCallsAfterAuthWitness ==
  /\ pc = "done"
  /\ authResult = "True"
  /\ calls = {"loadApiKeys", "addApiKeySecurely", "retrieveApiKey", "copyToClipboard"}

\* C5: in an unlocked session the key main encrypts and decrypts with is the
\* key derived from the password that passed verifyPassword in the session and
\* the salt of config/salt.bin.
SessionKeyFromVerifiedPassword ==
  (authResult = "True" /\ encryptionKey # None)
  => encryptionKey = deriveKey(authPassword, saltFile)

\* The session retrieved the record o describes: retrieveApiKey was called on
\* its database and label, with a key derived from the salt it was stored under.
Retrieved(o) ==
  /\ "retrieveApiKey" \in calls
  /\ conn = o.db /\ selectedLabel = o.label /\ saltFile = o.salt

\* Whether PBKDF2-HMAC sees the same key in the two passwords: HMAC pads a key
\* with zero bytes up to its block length (and hashes a longer one first).
SameHmacKey(p, q) == HmacKey(Utf8Encode(p)) = HmacKey(Utf8Encode(q))

SaltNeverRegenerated ==
  saltCall # NoCall
  => /\ saltCall.generated <=> ~saltCall.present
     /\ saltCall.present => (saltCall.kept /\ saltCall.fromSalt)

\* Step 6 of a session derived its key from the salt that an earlier call had
\* written.
SaltReadAgainWitness ==
  /\ pc = "load"
  /\ saltCall # NoCall
  /\ saltCall.present /\ ~saltCall.generated /\ saltCall.kept /\ ~saltCall.failed
  /\ encryptionKey = deriveKey(keyPassword, saltFile)

\* C16: a getEncryptionKey call made when a vault exists (a database with a
\* password hash or records) and config/salt.bin is absent fails and
\* generates no salt.
MissingSaltAborts ==
  (saltCall # NoCall /\ ~saltCall.present /\ saltCall.vaults)
  => (saltCall.failed /\ ~saltCall.generated)

(***************************************************************************)
(* The claim about where the key is kept.                                  *)
(***************************************************************************)
\* The keys deriveKey can return in a run of main
DerivableKeys ==
  { deriveKey(p, salt) : p \in KeyPrompts \cup BcryptPrompts, salt \in MainUrandom(SaltLen) }
  \ {None}

\* A key as it could be written: as it is, in hexadecimal, or in base64
KeyForms(key) == {key, Hexlify(key), B64Encode(key)}

\* What the program wrote to persistent stores: the salt file, the profile
\* names of the config file, and the rows of the database files.
Persisted ==
  {saltFile} \cup DOMAIN profiles
  \cup UNION { { dbs[d].users[i] : i \in 1..Len(dbs[d].users) }
               \cup { dbs[d].api_keys[i].label : i \in 1..Len(dbs[d].api_keys) }
               \cup { dbs[d].api_keys[i].iv : i \in 1..Len(dbs[d].api_keys) }
               \cup { dbs[d].api_keys[i].ciphertext : i \in 1..Len(dbs[d].api_keys) }
               : d \in { d \in DOMAIN dbs : dbs[d] # NoDb } }

\* C19: in every reachable state nothing the program persisted (the salt file,
\* the config file, the rows of the vaults) is a key that deriveKey returns,
\* and a session's key is the one derived from the password entered and the
\* persisted salt.
KeyNeverPersisted ==
  /\ \A key \in DerivableKeys : KeyForms(key) \cap Persisted = {}
  /\ (pc \in {"load", "offer", "select", "retrieve", "copy", "done"})
     => encryptionKey = deriveKey(keyPassword, saltFile)

\* A later process than the one that stored a record holds the key again,
\* with the salt, a hash and the record persisted.
KeyRederivedWitness ==
  /\ pc = "copy"
  /\ "addApiKeySecurely" \notin calls
  /\ encryptionKey \in DerivableKeys
  /\ saltFile # None
  /\ \E d \in DOMAIN dbs : dbs[d] # NoDb /\ dbs[d].users # <<>> /\ dbs[d].api_keys # <<>>

(***************************************************************************)
(* The claims about failures of the primitives.                            *)
(***************************************************************************)
\* C17: no call of hashPassword or verifyPassword ends with an exception
\* raised to its caller: hashPassword returns a hash, and verifyPassword
\* returns True or False.
NoExceptionPropagates ==
  /\ \A i \in 1..Len(hashLog) : hashLog[i].hash # Raised
  /\ ver # NoCall => ver.result \in {"True", "False"}

\* C18: for a record that encryptApiKey returned, decryptApiKey returns None
\* both under another key than the record's and, under the record's key, for
\* a ciphertext of which a character was changed, so that the two results
\* are equal.
WrongKeyAndCorruptedBothNone ==
  (/\ dec # NoCall
   /\ enc.out[2] # None
   /\ (dec.key # enc.key /\ ~corrupted) \/ (dec.key = enc.key /\ corrupted))
  => dec.result = None

(***************************************************************************)
(* The claims about the storage layer.                                     *)
(***************************************************************************)
\* C11: authenticateUser returns True when a hash is stored and the password
\* entered verifies against it (the hash is a bcrypt hash of that password),
\* and False, without raising, in every other case.
AuthenticateTrueIffVerifies ==
  storeCall.call = "authenticateUser"
  => LET storedHash == getStoredPasswordHash(storeCall.before)
         verifies   == /\ storedHash # None
                       /\ \E rnd \in MainUrandom(SaltLen) :
                            storedHash = hashPassword(storeCall.password, rnd)
     IN  storeCall.result = IF verifies THEN "True" ELSE "False"

\* C12: a vault in which a password hash was stored holds exactly one, and a
\* storePasswordHash call on such a vault adds none.
ExactlyOneStoredHash ==
  /\ \A d \in DOMAIN dbs : dbs[d] # NoDb => Len(dbs[d].users) <= 1
  /\ (storeCall.call = "storePasswordHash" /\ storeCall.before.users # <<>>)
     => dbs[StoreDb].users = storeCall.before.users

\* C13: no two records of a vault share a label, and an addApiKey call with a
\* label that is stored returns False and leaves the records as they were
\* (the record of that label and the number of records).
LabelsUnique ==
  /\ \A d \in DOMAIN dbs :
       dbs[d] # NoDb
       => \A i, j \in 1..Len(dbs[d].api_keys) :
            dbs[d].api_keys[i].label = dbs[d].api_keys[j].label => i = j
  /\ (storeCall.call = "addApiKey" /\ HasLabel(storeCall.before, storeCall.label))
     => /\ storeCall.result = FALSE
        /\ dbs[StoreDb].api_keys = storeCall.before.api_keys

\* An addApiKey call with a stored label and another ciphertext was refused.
DuplicateLabelRefusedWitness ==
  /\ storeCall.call = "addApiKey"
  /\ HasLabel(storeCall.before, storeCall.label)
  /\ getApiKeyByLabel(storeCall.before, storeCall.label)
       # <<storeCall.iv, storeCall.ciphertext>>
  /\ storeCall.result = FALSE
  /\ Len(dbs[StoreDb].api_keys) = 2

\* C14: for every record that an add inserted, getApiKeyByLabel for its label
\* returns the iv and the ciphertext it was inserted with, whatever calls
\* were made since.
RecordNeverMutated ==
  \A r \in inserted :
    getApiKeyByLabel(dbs[StoreDb], r.label) = <<r.iv, r.ciphertext>>

\* Two records were inserted, and an add of another secret under the label
\* of one of them was refused.
RecordKeptWitness ==
  /\ Cardinality(inserted) = 2
  /\ conn # NoConn
  /\ storeCall.call = "addApiKeySecurely"
  /\ storeCall.result = FALSE
  /\ \E r \in inserted :
       /\ r.label = Strip(storeCall.labelInput)
       /\ r.apiKeyInput # storeCall.apiKeyInput
       /\ Truthy(Strip(storeCall.apiKeyInput)) /\ Encodable(storeCall.apiKeyInput)

EmptyFieldsStoreNothing ==
  (/\ storeCall.call = "addApiKeySecurely"
   /\ Strip(storeCall.labelInput) = <<>> \/ storeCall.apiKeyInput = <<>>)
  => /\ storeCall.result = FALSE
     /\ dbs[StoreDb] = storeCall.before
     /\ inserted = { r \in inserted : HasLabel(storeCall.before, r.label) }

\* A whitespace-only label with a secret was refused on a vault that holds a
\* record.
EmptyLabelRefusedWitness ==
  /\ storeCall.call = "addApiKeySecurely"
  /\ storeCall.labelInput = <<32>>
  /\ storeCall.apiKeyInput = <<116>>
  /\ storeCall.result = FALSE
  /\ Len(dbs[StoreDb].api_keys) = 1


\* C22: what loadApiKeys returns has one entry for every add that returned
\* True, with the label of that add, and no other entry: the labels are those
\* of the successful adds, each once.
LoadReturnsLabelsAdded ==
  storeCall.call = "loadApiKeys"
  => LET entries == storeCall.result
     IN  /\ { entries[i].label : i \in 1..Len(entries) } = { r.label : r \in inserted }
         /\ Len(entries) = Cardinality(inserted)
         /\ \A i, j \in 1..Len(entries) : entries[i].label = entries[j].label => i = j

\* loadApiKeys returned two entries after two adds had returned True.
LoadTwoLabelsWitness ==
  /\ storeCall.call = "loadApiKeys"
  /\ Len(storeCall.result) = 2
  /\ Cardinality(inserted) = 2
  /\ \E r \in inserted : r.via = "addApiKey"
  /\ \E r \in inserted : r.via = "addApiKeySecurely"


(***************************************************************************)
(* The claims about the clipboard in main.                                 *)
(***************************************************************************)
\* C23: in main the clipboard is written only by a copyToClipboard call that
\* follows an authentication that returned True and a retrieveApiKey call that
\* returned a plaintext, and it then holds that plaintext; a process in which
\* retrieveApiKey returned None ends with nothing written to the clipboard.
ClipboardOnlyRetrievedPlaintext ==
  /\ "copyToClipboard" \in calls
     => /\ authResult = "True"
        /\ "retrieveApiKey" \in calls
        /\ decryptedKey # None
        /\ decryptedKey = retrieveApiKey(dbs[conn], selectedLabel, encryptionKey)
        /\ clipboard = decryptedKey
  /\ "copyToClipboard" \notin calls => clipboard = <<>>
  /\ ("retrieveApiKey" \in calls /\ decryptedKey = None)
     => (pc = "exit" /\ "copyToClipboard" \notin calls)

\* retrieveApiKey failed on a stored record (the key of the session is not the
\* record's) and the process is at its exit with an empty clipboard.
RetrievalFailedWitness ==
  /\ pc = "exit"
  /\ authResult = "True"
  /\ "retrieveApiKey" \in calls
  /\ decryptedKey = None
  /\ HasLabel(dbs[conn], selectedLabel)
  /\ clipboard = <<>>


(***************************************************************************)
(* The claims about the clipboard's timers.                                *)
(***************************************************************************)
\* C24: when copyToClipboard has returned, the timer it started is the global
\* timer and is not cancelled (or has run); and whenever the clipboard holds
\* a text it later holds the empty string, the text being cleared by the
\* timer of its copy, by the timer of an earlier copy, or at the end of the
\* process, also when a later copy replaced it.
CopyEventuallyCleared ==
  /\ [](callerPc = "idle" /\ Len(timers) > 0
        => /\ timer = Len(timers)
           /\ timers[timer].state = "done" \/ ~timers[timer].finished)
  /\ (clipText # <<>>) ~> (clipText = <<>>)

\* The second copy replaced the text of the first, whose timer was cancelled
\* before it ran, and the timer of the second copy cleared the clipboard.
SecondCopyClearedWitness ==
  /\ Len(timers) = 2
  /\ erased = {<<2, 2>>}
  /\ timers[1].state = "done" /\ timers[2].state = "done"
  /\ clipText = <<>>
  /\ callerPc = "idle"

\* C29: a timer clears only the text of the copyToClipboard call that started
\* it: no text of a later call is cleared by the timer of an earlier call.
OnlyOwnTimerClears ==
  \A p \in erased : p[1] = p[2]


(***************************************************************************)
(* The claims about vaults and their creation.                             *)
(***************************************************************************)
\* C25: the getEncryptionKey call of a createNewDatabase that creates a
\* database file generates the salt of that vault: it does not take a salt
\* that is persisted already, from which the key of another vault comes.
VaultCreationGeneratesSalt ==
  (saltCall # NoCall /\ saltCall.created) => (saltCall.generated /\ ~saltCall.present)


\* C26: an addApiKeySecurely call whose encryptApiKey returns (None, None)
\* returns False and leaves the vault as it found it; every record that an
\* addApiKeySecurely call inserted holds the pair that encryptApiKey returns
\* for the secret, the key and the nonce of that call, and neither column
\* holds the secret.
OnlyEncryptedPairsStored ==
  /\ (/\ storeCall.call = "addApiKeySecurely"
      /\ encryptApiKey(Strip(storeCall.apiKeyInput), storeCall.key, storeCall.iv)
           = <<None, None>>)
     => (storeCall.result = FALSE /\ dbs[StoreDb] = storeCall.before)
  /\ \A i \in 1..(IF dbs[StoreDb] = NoDb THEN 0 ELSE Len(dbs[StoreDb].api_keys)) :
       LET row == dbs[StoreDb].api_keys[i]
       IN  \E r \in inserted :
             /\ r.label = row.label
             /\ \E iv \in MainUrandom(NonceLen) :
                  <<row.iv, row.ciphertext>> = encryptApiKey(Strip(r.apiKeyInput), r.key, iv)
             /\ row.iv # None /\ row.ciphertext # None
             /\ {row.iv, row.ciphertext} \cap {r.apiKeyInput, Strip(r.apiKeyInput)} = {}

\* encryptApiKey failed on a secret typed under a label that is not stored,
\* and the call returned False.
EncryptionFailedWitness ==
  /\ storeCall.call = "addApiKeySecurely"
  /\ Truthy(Strip(storeCall.labelInput))
  /\ ~HasLabel(storeCall.before, Strip(storeCall.labelInput))
  /\ storeCall.apiKeyInput = PwSurrogate
  /\ storeCall.result = FALSE
  /\ Len(dbs[StoreDb].api_keys) = 1


\* C27: every record that main stored is encrypted under the key derived from
\* the password of its vault (the one whose hash the vault stores) and the
\* salt of config/salt.bin, and a session in which authenticateUser returned
\* True does not fail to retrieve a record of the vault.
RecordsUnderVaultPassword ==
  /\ \A o \in origin :
       LET storedHash == getStoredPasswordHash(dbs[o.db])
       IN  /\ storedHash # None
           /\ verifyPassword(storedHash, o.password) = "True"
           /\ getApiKeyByLabel(dbs[o.db], o.label) # None
  /\ ("retrieveApiKey" \in calls /\ authResult = "True") => decryptedKey # None


\* C28: retrieveApiKey returns None when the label has no record, and
\* otherwise what decryptApiKey returns for the record and the key: None when
\* it fails, and the plaintext when it returns one, the empty string too.
RetrieveReturnsWhatDecryptReturns ==
  storeCall.call = "retrieveApiKey"
  => LET record == getApiKeyByLabel(storeCall.before, storeCall.label)
     IN  storeCall.result =
           IF record = None THEN None
           ELSE decryptApiKey(record[1], record[2], storeCall.key)


\* C30: a database file exists only with a password hash stored in it and a
\* profile that points to it; and the profile name that the profile step
\* returned with a connection is a registered profile whose path is the
\* database of the connection.
VaultCreationAllOrNothing ==
  /\ \A d \in DOMAIN dbs :
       dbs[d] # NoDb
       => /\ dbs[d].users # <<>>
          /\ \E n \in DOMAIN profiles : profiles[n] = d
  /\ (pc \notin {"idle", "profile"} /\ Truthy(profileName))
     => (profileName \in DOMAIN profiles /\ profiles[profileName] = conn)

====
